---- MODULE Spec2Model ----
(***************************************************************************)
(* create_pg_db_user.py: interactive provisioning of a PostgreSQL role, a  *)
(* database and a fixed set of privileges.  The program is one linear      *)
(* procedure, main(), that talks to the server over two sequential         *)
(* connections; the model follows it statement by statement.  A text is a  *)
(* sequence of one-character strings; a Cyrillic letter, which the module  *)
(* syntax cannot spell, is written as a token ("CYR_de" is the letter de). *)
(***************************************************************************)
EXTENDS Integers, Sequences, FiniteSets, TLC

\* ------------------------------------------------------------------ bounds
\* letters, digits and symbols sampled from each character class
CharsPerClass == 1
\* how often the length prompt may reject an input and ask again
MaxReprompts == 1
\* largest length handed to gen_password when it is checked on its own
GenMaxLen == 5

\* ------------------------------------------------- optional values (None)
None == [some |-> FALSE, val |-> <<>>]
Some(v) == [some |-> TRUE, val |-> v]

\* -------------------------------------------------------------- characters
ascii_lowercase ==
  <<"a","b","c","d","e","f","g","h","i","j","k","l","m",
    "n","o","p","q","r","s","t","u","v","w","x","y","z">>
ascii_uppercase ==
  <<"A","B","C","D","E","F","G","H","I","J","K","L","M",
    "N","O","P","Q","R","S","T","U","V","W","X","Y","Z">>
digits == <<"0","1","2","3","4","5","6","7","8","9">>
\* line 38: specials = "!@#$%^&*()-_=+,.?~"
specials ==
  <<"!","@","#","$","%","^","&","*","(",")","-","_","=","+",",",".","?","~">>
\* line 38 with a double quote slipped into the symbol set
specials_quoted ==
  <<"\"","@","#","$","%","^","&","*","(",")","-","_","=","+",",",".","?","~">>

Range(s) == {s[i] : i \in 1..Len(s)}
Min(a, b) == IF a < b THEN a ELSE b
Max(a, b) == IF a > b THEN a ELSE b
FirstN(s, n) == SubSeq(s, 1, Min(n, Len(s)))

\* line 39: alphabet = string.ascii_letters + string.digits + specials,
\* cut down to the first CharsPerClass characters of every class
alphabet ==
  Range(FirstN(ascii_lowercase, CharsPerClass)) \cup
  Range(FirstN(ascii_uppercase, CharsPerClass)) \cup
  Range(FirstN(digits, CharsPerClass)) \cup
  Range(FirstN(specials, CharsPerClass))

islower(c) == c \in Range(ascii_lowercase)
isupper(c) == c \in Range(ascii_uppercase)
isdigit(c) == c \in Range(digits)

\* lines 42-45 with the digit test left out
complex_nodigit(p) ==
  /\ \E i \in 1..Len(p) : islower(p[i])
  /\ \E i \in 1..Len(p) : isupper(p[i])
  /\ \E i \in 1..Len(p) : p[i] \in Range(specials)

\* lines 42-45: the condition that ends the resampling loop
complex(p) ==
  /\ \E i \in 1..Len(p) : islower(p[i])
  /\ \E i \in 1..Len(p) : isupper(p[i])
  /\ \E i \in 1..Len(p) : isdigit(p[i])
  /\ \E i \in 1..Len(p) : p[i] \in Range(specials)

\* line 41: range(length) is empty for a length of zero or less
range_len(length) == Max(length, 0)

\* ------------------------------------------------- str.strip, str.lower
whitespace == {" ", "\t"}
RECURSIVE lstrip(_)
lstrip(s) ==
  IF s # <<>> /\ Head(s) \in whitespace THEN lstrip(Tail(s)) ELSE s
RECURSIVE rstrip(_)
rstrip(s) ==
  IF s # <<>> /\ s[Len(s)] \in whitespace
    THEN rstrip(SubSeq(s, 1, Len(s) - 1)) ELSE s
strip(s) == rstrip(lstrip(s))

CyrUpper == <<"CYR_DE", "CYR_A">>
CyrLower == <<"CYR_de", "CYR_a">>
IndexOf(s, c) == CHOOSE i \in 1..Len(s) : s[i] = c
lower_char(c) ==
  IF c \in Range(ascii_uppercase)
    THEN ascii_lowercase[IndexOf(ascii_uppercase, c)]
    ELSE IF c \in Range(CyrUpper) THEN CyrLower[IndexOf(CyrUpper, c)] ELSE c
lower(s) == [i \in 1..Len(s) |-> lower_char(s[i])]

\* ----------------------------------------------------------- int(), str()
RECURSIVE digits_value(_)
digits_value(s) ==
  IF s = <<>> THEN 0
  ELSE 10 * digits_value(SubSeq(s, 1, Len(s) - 1))
         + (IndexOf(digits, s[Len(s)]) - 1)
all_digits(s) == s # <<>> /\ \A i \in 1..Len(s) : isdigit(s[i])
\* int(v) of line 31: None stands for ValueError
int(v) ==
  IF all_digits(v) THEN Some(digits_value(v))
  ELSE IF v # <<>> /\ Head(v) = "-" /\ all_digits(Tail(v))
    THEN Some(0 - digits_value(Tail(v)))
  ELSE IF v # <<>> /\ Head(v) = "+" /\ all_digits(Tail(v))
    THEN Some(digits_value(Tail(v)))
  ELSE None

\* lines 25-33, one round of prompt_int on the typed line: the value
\* returned, or None when the loop prints the complaint and asks again
prompt_int(line, default) ==
  LET v == strip(line) IN
    IF v = <<>> THEN Some(default) ELSE int(v)

\* ------------------------------------------------------------------ state
VARIABLES
  pc,                  \* the statement of main() that runs next
  run,                 \* 1 for the first invocation, 2 for a repetition
  pwd_len,             \* line 61
  generated_password,  \* line 66
  pwd,                 \* line 41, the candidate inside gen_password
  gen_ret,             \* the call site gen_password returns to
  row,                 \* line 74
  ans,                 \* line 112
  db_exists,           \* line 133
  conn,                \* the connections that are open
  scope,               \* the with-block of lines 70 / 158 being executed
  exc,                 \* the exception travelling to line 210
  issued,              \* every connection attempt and statement, in order
  out,                 \* every line printed, in order
  exit_status,         \* the process exit status, -1 while running
  server,              \* the role and the database on the server
  prev_server          \* the server as the previous invocation left it

vars == <<pc, run, pwd_len, generated_password, pwd, gen_ret, row, ans,
          db_exists, conn, scope, exc, issued, out, exit_status, server,
          prev_server>>

\* how many times the tool is invoked on the same server
Runs == 2

NoExc == [some |-> FALSE, type |-> "", text |-> ""]
RowNone == [some |-> FALSE, val |-> FALSE]

\* the seven statements of lines 161-199, in program order
SchemaSeq ==
  <<"GRANT USAGE, CREATE ON SCHEMA public",
    "GRANT ALL ON ALL TABLES",
    "GRANT ALL ON ALL SEQUENCES",
    "GRANT ALL ON ALL FUNCTIONS",
    "ALTER DEFAULT PRIVILEGES ON TABLES",
    "ALTER DEFAULT PRIVILEGES ON SEQUENCES",
    "ALTER DEFAULT PRIVILEGES ON FUNCTIONS">>

\* ------------------------------------------------------------- the server
\* what a statement that succeeded does to the server
effect(s, stmt, r) ==
  CASE stmt = "CREATE ROLE" ->
         [s EXCEPT !.role_exists = TRUE, !.rolsuper = FALSE,
                   !.rolpassword = r]
    [] stmt = "ALTER ROLE PASSWORD NOSUPERUSER" ->
         [s EXCEPT !.rolsuper = FALSE, !.rolpassword = r]
    [] stmt = "ALTER ROLE NOSUPERUSER" -> [s EXCEPT !.rolsuper = FALSE]
    [] stmt = "CREATE DATABASE OWNER" ->
         [s EXCEPT !.db_exists = TRUE, !.db_owner = "target",
                   !.db_grant = FALSE, !.schema_grants = {}]
    [] stmt = "ALTER DATABASE OWNER TO" -> [s EXCEPT !.db_owner = "target"]
    [] stmt = "GRANT ALL ON DATABASE" -> [s EXCEPT !.db_grant = TRUE]
    [] stmt \in Range(SchemaSeq) ->
         [s EXCEPT !.schema_grants = @ \cup {stmt}]
    [] OTHER -> s

\* the servers a first invocation may meet: the role absent, present, or
\* present as superuser; the database absent, owned by somebody else and
\* without grants, or already provisioned (rolpassword: the invocation
\* that set the password, 0 for one set before)
AnyServers ==
  {[role_exists |-> re, rolsuper |-> su, rolpassword |-> 0,
    db_exists |-> d[1], db_owner |-> d[2], db_grant |-> d[3],
    schema_grants |-> d[4]] :
     re \in BOOLEAN, su \in BOOLEAN,
     d \in {<<FALSE, "nobody", FALSE, {}>>,
            <<TRUE, "other", FALSE, {}>>,
            <<TRUE, "target", TRUE, Range(SchemaSeq)>>}}
Servers ==
  {s \in AnyServers :
     (s.rolsuper => s.role_exists) /\ (s.db_owner = "target" => s.role_exists)}

\* --------------------------------------------------------------- printing
line(kind, text) == [kind |-> kind, text |-> text, secret |-> <<>>]

\* lines 99-101 with the print of the password lost
password_echo_lost(p) ==
  <<line("marker", "generated password (stdout)"),
    line("marker", "/password")>>

\* lines 99-101 with the password printed twice
password_echo_twice(p) ==
  <<line("marker", "generated password (stdout)"),
    [kind |-> "password", text |-> "", secret |-> p],
    [kind |-> "password", text |-> "", secret |-> p],
    line("marker", "/password")>>

\* lines 99-101 and 120-122: the password between its two markers
password_echo(p) ==
  <<line("marker", "generated password (stdout)"),
    [kind |-> "password", text |-> "", secret |-> p],
    line("marker", "/password")>>

\* lines 205-208 with the test of line 205 turned around
connection_string_swapped(gp) ==
  IF ~(gp.some /\ gp.val # <<>>)
    THEN [kind |-> "connstr", text |-> "password=", secret |-> gp.val]
    ELSE line("connstr", "")

\* lines 205-208: `if generated_password` is false for None and for ""
connection_string(gp) ==
  IF gp.some /\ gp.val # <<>>
    THEN [kind |-> "connstr", text |-> "password=", secret |-> gp.val]
    ELSE line("connstr", "")

\* ------------------------------------------------------- control of main()
\* lines 68-72 and 210 with the failure swallowed
after_swallow(ok, next) == next

\* lines 68-72, 210: a failed call leaves the try block, by way of the
\* with-blocks it is in
after(ok, next) == IF ok THEN next ELSE "unwind"

\* lines 76-112 without the superuser test of line 105
role_branch_unchecked(r) ==
  IF ~r.some THEN "gen_create" ELSE "prompt_ans"

\* lines 76, 105, 112: where main() goes once the role row is fetched
role_branch(r) ==
  IF ~r.some THEN "gen_create"
  ELSE IF r.val = TRUE THEN "raise"
  ELSE "prompt_ans"

\* line 113 taking the empty answer (the prompt's default, N) for a yes
is_yes_default(a) ==
  a \in {<<>>, <<"y">>, <<"y","e","s">>, <<"CYR_de","CYR_a">>, <<"CYR_de">>}

\* line 113: ans in ("y", "yes", "да", "д")
is_yes(a) ==
  a \in {<<"y">>, <<"y","e","s">>, <<"CYR_de","CYR_a">>, <<"CYR_de">>}

\* line 135 with the branches exchanged
db_branch_swapped(e) == IF e THEN "create_db" ELSE "alter_owner"

\* line 135: if not db_exists
db_branch(e) == IF ~e THEN "create_db" ELSE "alter_owner"

\* what the operator may type at the two prompts the model follows
\* (at line 61: a negative number, zero, the largest length that cannot
\* hold four classes, the smallest that can, and two lines that are not
\* numbers)
LenInputs ==
  {<<"-", "1">>, <<"0">>, <<"3">>, <<"4">>, <<" ", "+", "4", " ">>,
   <<"0", "4">>, <<"x">>, <<"-">>}
AnsInputs ==
  {<<>>, <<" ", "Y", "e", "s", " ">>, <<"CYR_DE">>, <<"n">>}

Complaints == Len(SelectSeq(out, LAMBDA l : l.kind = "complaint"))

\* one call of cur.execute or psycopg.connect and its outcome
call(c, stmt, ok, secret) ==
  [conn |-> c, stmt |-> stmt, ok |-> ok, secret |-> secret]
error_of(stmt) ==
  [some |-> TRUE, type |-> "psycopg.Error", text |-> stmt]


\* ----------------------------------------------------------------- actions
\* line 61: prompt_int for the password length; an empty line (the default
\* of 24 characters) is beyond the lengths the model samples
PromptLen ==
  /\ pc = "prompt_len"
  /\ \E typed_line \in LenInputs :
       LET r == prompt_int(typed_line, 24) IN
         IF r.some
           THEN /\ pwd_len' = r.val
                /\ pc' = "connect_maint"
                /\ out' = out
           ELSE /\ Complaints < MaxReprompts
                /\ out' = Append(out, line("complaint", "not an integer"))
                /\ UNCHANGED <<pwd_len, pc>>
  /\ UNCHANGED <<run, generated_password, pwd, gen_ret, row, ans, db_exists,
                 conn, scope, exc, issued, exit_status, server, prev_server>>

\* line 70: psycopg.connect(admin_dsn, autocommit=True)
ConnectMaint ==
  /\ pc = "connect_maint"
  /\ \E ok \in BOOLEAN :
       /\ issued' = Append(issued, call("maint", "CONNECT", ok, <<>>))
       /\ conn' = IF ok THEN conn \cup {"maint"} ELSE conn
       /\ scope' = IF ok THEN "maint" ELSE scope
       /\ exc' = IF ok THEN exc ELSE error_of("CONNECT")
       /\ pc' = after(ok, "role_check")
  /\ UNCHANGED <<run, pwd_len, generated_password, pwd, gen_ret, row, ans,
                 db_exists, out, exit_status, server, prev_server>>

\* lines 73-76, 105-109: fetch the role's row and branch on it
RoleCheck ==
  /\ pc = "role_check"
  /\ \E ok \in BOOLEAN :
       LET r == IF server.role_exists
                  THEN [some |-> TRUE, val |-> server.rolsuper]
                  ELSE RowNone
           b == role_branch(r) IN
         /\ issued' = Append(issued,
                        call("maint", "SELECT rolsuper FROM pg_roles", ok, <<>>))
         /\ row' = IF ok THEN r ELSE row
         /\ exc' = IF ~ok THEN error_of("SELECT rolsuper FROM pg_roles")
                   ELSE IF b = "raise"
                     THEN [some |-> TRUE, type |-> "RuntimeError",
                           text |-> "role is SUPERUSER; ALTER ROLE NOSUPERUSER"]
                   ELSE exc
         /\ pc' = IF ~ok \/ b = "raise" THEN after(FALSE, "prompt_ans")
                  ELSE IF b = "gen_create" THEN "gen" ELSE "prompt_ans"
         /\ gen_ret' = IF ok /\ b = "gen_create" THEN "create_role" ELSE gen_ret
  /\ UNCHANGED <<run, pwd_len, generated_password, pwd, ans, db_exists, conn,
                 scope, out, exit_status, server, prev_server>>

\* line 41: one secrets.choice(alphabet) of the join
GenChoice ==
  /\ pc = "gen"
  /\ Len(pwd) < range_len(pwd_len)
  /\ \E c \in alphabet : pwd' = Append(pwd, c)
  /\ UNCHANGED <<pc, run, pwd_len, generated_password, gen_ret, row, ans,
                 db_exists, conn, scope, exc, issued, out, exit_status,
                 server, prev_server>>

\* lines 42-46: return the candidate or go round the loop again
GenTest ==
  /\ pc = "gen"
  /\ Len(pwd) = range_len(pwd_len)
  /\ IF complex(pwd)
       THEN /\ generated_password' = Some(pwd)
            /\ pc' = gen_ret
       ELSE /\ UNCHANGED <<generated_password, pc>>
  /\ pwd' = <<>>
  /\ UNCHANGED <<run, pwd_len, gen_ret, row, ans, db_exists, conn, scope,
                 exc, issued, out, exit_status, server, prev_server>>

\* cur.execute(stmt) on connection c, then on to `next`
Execute(c, stmt, secret, next) ==
  \E ok \in BOOLEAN :
    /\ issued' = Append(issued, call(c, stmt, ok, secret))
    /\ server' = IF ok THEN effect(server, stmt, run) ELSE server
    /\ exc' = IF ok THEN exc ELSE error_of(stmt)
    /\ pc' = after(ok, next)

\* lines 79-97: CREATE ROLE ... PASSWORD
CreateRole ==
  /\ pc = "create_role"
  /\ Execute("maint", "CREATE ROLE", generated_password.val, "print_created")
  /\ UNCHANGED <<run, pwd_len, generated_password, pwd, gen_ret, row, ans,
                 db_exists, conn, scope, out, exit_status, prev_server>>

\* lines 98-101
PrintCreated ==
  /\ pc = "print_created"
  /\ out' = Append(out, line("status", "role created"))
              \o password_echo(generated_password.val)
  /\ pc' = "nosuperuser"
  /\ UNCHANGED <<run, pwd_len, generated_password, pwd, gen_ret, row, ans,
                 db_exists, conn, scope, exc, issued, exit_status, server,
                 prev_server>>

\* lines 112-113, 123-124: ask whether to rotate the password
PromptAns ==
  /\ pc = "prompt_ans"
  /\ \E typed_line \in AnsInputs :
       /\ ans' = lower(strip(typed_line))
       /\ IF is_yes(ans')
            THEN /\ pc' = "gen"
                 /\ gen_ret' = "alter_password"
                 /\ out' = out
            ELSE /\ pc' = "nosuperuser"
                 /\ gen_ret' = gen_ret
                 /\ out' = Append(out, line("status", "password not changed"))
  /\ UNCHANGED <<run, pwd_len, generated_password, pwd, row, db_exists, conn,
                 scope, exc, issued, exit_status, server, prev_server>>

\* lines 115-118: ALTER ROLE ... WITH PASSWORD ... NOSUPERUSER
AlterPassword ==
  /\ pc = "alter_password"
  /\ Execute("maint", "ALTER ROLE PASSWORD NOSUPERUSER",
             generated_password.val, "print_rotated")
  /\ UNCHANGED <<run, pwd_len, generated_password, pwd, gen_ret, row, ans,
                 db_exists, conn, scope, out, exit_status, prev_server>>

\* lines 119-122
PrintRotated ==
  /\ pc = "print_rotated"
  /\ out' = Append(out, line("status", "password updated"))
              \o password_echo(generated_password.val)
  /\ pc' = "nosuperuser"
  /\ UNCHANGED <<run, pwd_len, generated_password, pwd, gen_ret, row, ans,
                 db_exists, conn, scope, exc, issued, exit_status, server,
                 prev_server>>

\* lines 127-129: ALTER ROLE ... NOSUPERUSER
NoSuperuser ==
  /\ pc = "nosuperuser"
  /\ Execute("maint", "ALTER ROLE NOSUPERUSER", <<>>, "db_check")
  /\ UNCHANGED <<run, pwd_len, generated_password, pwd, gen_ret, row, ans,
                 db_exists, conn, scope, out, exit_status, prev_server>>

\* lines 132-135: does the database exist
DbCheck ==
  /\ pc = "db_check"
  /\ \E ok \in BOOLEAN :
       /\ issued' = Append(issued,
                      call("maint", "SELECT 1 FROM pg_database", ok, <<>>))
       /\ db_exists' = IF ok THEN server.db_exists ELSE db_exists
       /\ exc' = IF ok THEN exc ELSE error_of("SELECT 1 FROM pg_database")
       /\ pc' = after(ok, db_branch(server.db_exists))
  /\ UNCHANGED <<run, pwd_len, generated_password, pwd, gen_ret, row, ans,
                 conn, scope, out, exit_status, server, prev_server>>

\* lines 136-140: CREATE DATABASE ... OWNER
CreateDb ==
  /\ pc = "create_db"
  /\ Execute("maint", "CREATE DATABASE OWNER", <<>>, "grant_db")
  /\ out' = IF pc' = "grant_db"
              THEN Append(out, line("status", "database created")) ELSE out
  /\ UNCHANGED <<run, pwd_len, generated_password, pwd, gen_ret, row, ans,
                 db_exists, conn, scope, exit_status, prev_server>>

\* lines 142-147: ALTER DATABASE ... OWNER TO
AlterOwner ==
  /\ pc = "alter_owner"
  /\ Execute("maint", "ALTER DATABASE OWNER TO", <<>>, "grant_db")
  /\ out' = IF pc' = "grant_db"
              THEN out \o <<line("status", "database already exists"),
                            line("status", "owner set")>>
              ELSE Append(out, line("status", "database already exists"))
  /\ UNCHANGED <<run, pwd_len, generated_password, pwd, gen_ret, row, ans,
                 db_exists, conn, scope, exit_status, prev_server>>

\* lines 150-154: GRANT ALL PRIVILEGES ON DATABASE
GrantDb ==
  /\ pc = "grant_db"
  /\ Execute("maint", "GRANT ALL ON DATABASE", <<>>, "close_maint")
  /\ out' = IF pc' = "close_maint"
              THEN Append(out, line("status", "GRANT ALL ON DATABASE")) ELSE out
  /\ UNCHANGED <<run, pwd_len, generated_password, pwd, gen_ret, row, ans,
                 db_exists, conn, scope, exit_status, prev_server>>

\* the with-block of line 70 is left with the maintenance connection open
CloseMaint_leak ==
  /\ pc = "close_maint"
  /\ scope' = "none"
  /\ pc' = "connect_target"
  /\ UNCHANGED <<run, pwd_len, generated_password, pwd, gen_ret, row, ans,
                 db_exists, conn, exc, issued, out, exit_status, server,
                 prev_server>>

\* line 70, the end of the first with-block: the connection is closed
CloseMaint ==
  /\ pc = "close_maint"
  /\ conn' = conn \ {"maint"}
  /\ scope' = "none"
  /\ pc' = "connect_target"
  /\ UNCHANGED <<run, pwd_len, generated_password, pwd, gen_ret, row, ans,
                 db_exists, exc, issued, out, exit_status, server, prev_server>>

\* lines 157-158: psycopg.connect(target_dsn, autocommit=True)
ConnectTarget ==
  /\ pc = "connect_target"
  /\ \E ok \in BOOLEAN :
       /\ issued' = Append(issued, call("target", "CONNECT", ok, <<>>))
       /\ conn' = IF ok THEN conn \cup {"target"} ELSE conn
       /\ scope' = IF ok THEN "target" ELSE scope
       /\ exc' = IF ok THEN exc ELSE error_of("CONNECT")
       /\ pc' = after(ok, SchemaSeq[1])
  /\ UNCHANGED <<run, pwd_len, generated_password, pwd, gen_ret, row, ans,
                 db_exists, out, exit_status, server, prev_server>>

\* the connection the statements of lines 161-199 are sent on, had the
\* cursor of the first block been used again
schema_conn_stale == "maint"

\* line 159: the cursor of the second block belongs to the target database
schema_conn == "target"

\* lines 161-201: the grants inside the target database, one per step
ExecSchema ==
  /\ \E i \in 1..Len(SchemaSeq) :
       /\ pc = SchemaSeq[i]
       /\ Execute(schema_conn, SchemaSeq[i], <<>>,
                  IF i < Len(SchemaSeq) THEN SchemaSeq[i + 1] ELSE "close_target")
  /\ out' = IF pc' = "close_target"
              THEN Append(out, line("status", "schema public privileges set"))
              ELSE out
  /\ UNCHANGED <<run, pwd_len, generated_password, pwd, gen_ret, row, ans,
                 db_exists, conn, scope, exit_status, prev_server>>

\* line 158, the end of the second with-block
CloseTarget ==
  /\ pc = "close_target"
  /\ conn' = conn \ {"target"}
  /\ scope' = "none"
  /\ pc' = "report"
  /\ UNCHANGED <<run, pwd_len, generated_password, pwd, gen_ret, row, ans,
                 db_exists, exc, issued, out, exit_status, server, prev_server>>

\* lines 203-208: the closing messages; main() returns, exit status 0
Report ==
  /\ pc = "report"
  /\ out' = out \o <<line("status", "done"), line("status", "example"),
                     connection_string(generated_password)>>
  /\ exit_status' = 0
  /\ pc' = "done"
  /\ UNCHANGED <<run, pwd_len, generated_password, pwd, gen_ret, row, ans,
                 db_exists, conn, scope, exc, issued, server, prev_server>>

\* lines 70, 158: an exception leaves the with-block it was raised in, and
\* the block closes its connection on the way out
Unwind ==
  /\ pc = "unwind"
  /\ conn' = conn \ {scope}
  /\ scope' = "none"
  /\ pc' = "except"
  /\ UNCHANGED <<run, pwd_len, generated_password, pwd, gen_ret, row, ans,
                 db_exists, exc, issued, out, exit_status, server, prev_server>>

\* lines 210-213: the header and print(e); the message of a psycopg error
\* is the server's and is taken not to quote the password literal
Except ==
  /\ pc = "except"
  /\ out' = out \o <<line("error", "[ERROR]"), line("error", exc.text)>>
  /\ exit_status' = 3
  /\ pc' = "done"
  /\ UNCHANGED <<run, pwd_len, generated_password, pwd, gen_ret, row, ans,
                 db_exists, conn, scope, exc, issued, server, prev_server>>

\* the tool is started again with the same answers to lines 52-61, on the
\* server the successful invocation before it left behind
Rerun ==
  /\ pc = "done"
  /\ exit_status = 0
  /\ run < Runs
  /\ run' = run + 1
  /\ prev_server' = server
  /\ pc' = "connect_maint"
  /\ generated_password' = None
  /\ row' = RowNone
  /\ ans' = <<>>
  /\ db_exists' = FALSE
  /\ issued' = <<>>
  /\ out' = <<>>
  /\ exit_status' = 0 - 1
  /\ UNCHANGED <<pwd_len, pwd, gen_ret, conn, scope, exc, server>>

\* ---------------------------------------------------------- specifications
Init ==
  /\ pc = "prompt_len"
  /\ run = 1
  /\ pwd_len = 0
  /\ generated_password = None
  /\ pwd = <<>>
  /\ gen_ret = "none"
  /\ row = RowNone
  /\ ans = <<>>
  /\ db_exists = FALSE
  /\ conn = {}
  /\ scope = "none"
  /\ exc = NoExc
  /\ issued = <<>>
  /\ out = <<>>
  /\ exit_status = 0 - 1
  /\ server \in Servers
  /\ prev_server = server

Next ==
  \/ PromptLen
  \/ ConnectMaint
  \/ RoleCheck
  \/ GenChoice
  \/ GenTest
  \/ CreateRole
  \/ PrintCreated
  \/ PromptAns
  \/ AlterPassword
  \/ PrintRotated
  \/ NoSuperuser
  \/ DbCheck
  \/ CreateDb
  \/ AlterOwner
  \/ GrantDb
  \/ CloseMaint
  \/ ConnectTarget
  \/ ExecSchema
  \/ CloseTarget
  \/ Report
  \/ Unwind
  \/ Except
  \/ Rerun

Spec == Init /\ [][Next]_vars

\* gen_password on its own: called with every length up to GenMaxLen
InitGen ==
  /\ pc = "gen"
  /\ run = 1
  /\ pwd_len \in (0 - 1)..GenMaxLen
  /\ generated_password = None
  /\ pwd = <<>>
  /\ gen_ret = "returned"
  /\ row = RowNone
  /\ ans = <<>>
  /\ db_exists = FALSE
  /\ conn = {}
  /\ scope = "none"
  /\ exc = NoExc
  /\ issued = <<>>
  /\ out = <<>>
  /\ exit_status = 0 - 1
  /\ server \in {s \in Servers : ~s.role_exists /\ ~s.db_exists}
  /\ prev_server = server

NextGen == GenChoice \/ GenTest

SpecGen == InitGen /\ [][NextGen]_vars


\* ------------------------------------------------------------- properties
Mutating ==
  {"CREATE ROLE", "ALTER ROLE PASSWORD NOSUPERUSER", "ALTER ROLE NOSUPERUSER",
   "CREATE DATABASE OWNER", "ALTER DATABASE OWNER TO", "GRANT ALL ON DATABASE"}
    \cup Range(SchemaSeq)
PasswordStmts == {"CREATE ROLE", "ALTER ROLE PASSWORD NOSUPERUSER"}
Leaving == {"unwind", "except", "done"}
Issued(S) == {i \in 1..Len(issued) : issued[i].stmt \in S}
\* a statement of S succeeded on the maintenance connection before call i
OkBefore(i, S) ==
  \E j \in 1..(i - 1) :
    issued[j].stmt \in S /\ issued[j].ok /\ issued[j].conn = "maint"
\* the answers that confirm the rotation, as the operator means them
Confirmed(a) ==
  a \in {<<"y">>, <<"y","e","s">>, <<"CYR_de">>, <<"CYR_de","CYR_a">>}
\* what a statement that succeeded leaves on the server
Established(stmt) ==
  CASE stmt = "CREATE ROLE" -> server.role_exists
    [] stmt = "ALTER ROLE PASSWORD NOSUPERUSER" -> server.rolpassword = run
    [] stmt = "CREATE DATABASE OWNER" -> server.db_exists
    [] stmt = "ALTER DATABASE OWNER TO" -> server.db_owner = "target"
    [] stmt = "GRANT ALL ON DATABASE" -> server.db_grant
    [] stmt \in Range(SchemaSeq) -> stmt \in server.schema_grants
    [] OTHER -> TRUE
Provisioned(s) ==
  /\ s.role_exists /\ ~s.rolsuper
  /\ s.db_exists /\ s.db_owner = "target"
  /\ s.db_grant /\ s.schema_grants = Range(SchemaSeq)
Listed(s) ==
  <<s.role_exists, s.rolsuper, s.db_exists, s.db_owner, s.db_grant,
    s.schema_grants>>
Secrets == {k \in 1..Len(out) : out[k].secret # <<>>}

\* C1: once the role check has found the target role to be a superuser,
\* no mutating statement is ever issued, the target-database connection is
\* never attempted or open, the run only unwinds, and it ends with exit
\* status 3.
C1_SuperuserAborts ==
  (row.some /\ row.val) =>
    /\ Issued(Mutating) = {}
    /\ \A i \in 1..Len(issued) : issued[i].conn # "target"
    /\ "target" \notin conn
    /\ pc \in Leaving
    /\ pc = "done" => exit_status = 3
C1_Witness ==
  /\ row.some /\ row.val
  /\ pc = "done" /\ exit_status = 3
  /\ server.rolsuper

\* C2: a connection attempt or statement that failed is the last call of
\* the run; everything the calls before it established is still on the
\* server; the run is on its way out and ends with exit status 3.
C2_FailureAborts ==
  \A i \in 1..Len(issued) :
    ~issued[i].ok =>
      /\ i = Len(issued)
      /\ pc \in Leaving
      /\ pc = "done" => exit_status = 3
      /\ \A j \in 1..(i - 1) : issued[j].ok /\ Established(issued[j].stmt)
C2_Witness ==
  /\ pc = "done" /\ exit_status = 3
  /\ Len(issued) > 2
  /\ issued[Len(issued)].stmt = SchemaSeq[Len(SchemaSeq)]
  /\ ~issued[Len(issued)].ok
  /\ Cardinality(server.schema_grants) = Len(SchemaSeq) - 1

\* C3: every invocation that ends with exit status 0 leaves the role
\* existing and not superuser, the database existing and owned by the role,
\* and all grants present; a repeated invocation in which nothing fails
\* ends with exit status 0, leaves that state as it found it, finds the
\* role and the database, and issues neither CREATE ROLE nor CREATE DATABASE.
C3_Idempotent ==
  /\ (pc = "done" /\ exit_status = 0) => Provisioned(server)
  /\ run >= 2 =>
       /\ Provisioned(prev_server)
       /\ Issued({"CREATE ROLE", "CREATE DATABASE OWNER"}) = {}
       /\ (pc = "done" /\ \A i \in 1..Len(issued) : issued[i].ok) =>
            /\ exit_status = 0
            /\ Listed(server) = Listed(prev_server)
            /\ row.some /\ db_exists
            /\ Issued({"ALTER DATABASE OWNER TO"}) # {}
            /\ \E k \in 1..Len(out) : out[k].text = "database already exists"
C3_Witness ==
  /\ run = 2 /\ pc = "done" /\ exit_status = 0
  /\ server.rolpassword = 1
  /\ Provisioned(server)

\* C4: a password gen_password returns for a length of 4 or more has that
\* length, holds an uppercase letter, a lowercase letter, a digit and a
\* symbol of the safe set, and holds no quote and no backslash.
C4_PasswordPolicy ==
  (generated_password.some /\ pwd_len >= 4) =>
    LET p == generated_password.val IN
      /\ Len(p) = pwd_len
      /\ \E i \in 1..Len(p) : p[i] \in Range(ascii_uppercase)
      /\ \E i \in 1..Len(p) : p[i] \in Range(ascii_lowercase)
      /\ \E i \in 1..Len(p) : p[i] \in Range(digits)
      /\ \E i \in 1..Len(p) :
           p[i] \in {"!","@","#","$","%","^","&","*","(",")",
                     "-","_","=","+",",",".","?","~"}
      /\ \A i \in 1..Len(p) : p[i] \notin {"'", "\"", "\\"}
C4_Witness ==
  /\ pc = "returned"
  /\ generated_password.some
  /\ pwd_len > 4
  /\ Len(generated_password.val) = pwd_len

\* C5: when the statement that sets the password has succeeded and either
\* a later call has been issued or the run is on its way out, the password
\* of that statement has been printed.
C5_PasswordShownFirst ==
  \A i \in Issued(PasswordStmts) :
    (issued[i].ok /\ (i < Len(issued) \/ pc \in Leaving)) =>
      /\ issued[i].secret # <<>>
      /\ \E k \in 1..Len(out) :
           out[k].kind = "password" /\ out[k].secret = issued[i].secret
C5_Witness ==
  /\ pc = "done" /\ exit_status = 3
  /\ \E i \in Issued(PasswordStmts) : issued[i].ok
  /\ \E k \in 1..Len(out) : out[k].kind = "password"

\* C6 as stated: the password is written at most once, and only between
\* the two markers.
C6_PrintedOnlyOnce ==
  /\ Cardinality(Secrets) <= 1
  /\ \A k \in Secrets :
       /\ out[k].kind = "password"
       /\ k > 1 /\ out[k - 1].kind = "marker"
       /\ k < Len(out) /\ out[k + 1].kind = "marker"

\* C6 as amended: the password is written once between the two markers
\* and, when the run succeeds, once more in the connection string that is
\* the last line; no status line, complaint, error header or error
\* message raised by the program holds it.
C6_PrintedInEchoAndConnString ==
  /\ \A k \in Secrets :
       /\ generated_password.some /\ out[k].secret = generated_password.val
       /\ out[k].kind \in {"password", "connstr"}
       /\ out[k].kind = "password" =>
            /\ k > 1 /\ out[k - 1].kind = "marker"
            /\ k < Len(out) /\ out[k + 1].kind = "marker"
       /\ out[k].kind = "connstr" =>
            k = Len(out) /\ pc = "done" /\ exit_status = 0
  /\ Cardinality({k \in Secrets : out[k].kind = "password"}) <= 1
  /\ Cardinality({k \in Secrets : out[k].kind = "connstr"}) <= 1
C6_Witness ==
  /\ pc = "done" /\ exit_status = 0
  /\ Cardinality(Secrets) = 2

\* C7: at a successful end the connection string holds the password
\* exactly when one was generated in this run, and one was generated
\* exactly when the role was absent or the operator confirmed the
\* rotation; while the operator of an existing role has not confirmed, no
\* statement that sets a password is issued.
C7_ConnStringMatchesRotation ==
  /\ (pc = "done" /\ exit_status = 0) =>
       LET cs == out[Len(out)] IN
         /\ cs.kind = "connstr"
         /\ (cs.secret # <<>>) <=> generated_password.some
         /\ generated_password.some => cs.secret = generated_password.val
         /\ generated_password.some <=> (~row.some \/ Confirmed(ans))
  /\ (row.some /\ ~Confirmed(ans)) =>
       /\ Issued(PasswordStmts) = {}
       /\ ~generated_password.some
C7_Witness ==
  /\ pc = "done" /\ exit_status = 0
  /\ row.some /\ ans = <<"n">>
  /\ out[Len(out)].kind = "connstr" /\ out[Len(out)].secret = <<>>

\* C8: at most one connection is open at a time; the target-database
\* connection is attempted only with the maintenance connection closed,
\* which stays closed from then on; when the process has ended no
\* connection is open.
C8_ConnectionsScoped ==
  /\ Cardinality(conn) <= 1
  /\ pc = "connect_target" => conn = {}
  /\ (\E i \in 1..Len(issued) : issued[i].conn = "target") =>
       "maint" \notin conn
  /\ pc \in {"except", "done"} => conn = {}
C8_Witness ==
  /\ pc = "done" /\ exit_status = 3
  /\ \E i \in 1..Len(issued) :
       issued[i].conn = "target" /\ issued[i].stmt # "CONNECT" /\ ~issued[i].ok

\* C9 as stated: a length below 4 never reaches the resampling loop of
\* gen_password.
C9_LengthValidated ==
  pc = "gen" => pwd_len >= 4

\* C10: a schema-level statement is sent on the target-database
\* connection, right after the schema-level statement before it, and only
\* after the role step, ALTER ROLE NOSUPERUSER, the creation or the
\* change of owner of the database and GRANT ON DATABASE have succeeded on
\* the maintenance connection; the database existence check comes only
\* after ALTER ROLE NOSUPERUSER has succeeded.
C10_FixedOrder ==
  \A i \in 1..Len(issued) :
    /\ issued[i].stmt = "SELECT 1 FROM pg_database" =>
         OkBefore(i, {"ALTER ROLE NOSUPERUSER"})
    /\ \A k \in 1..Len(SchemaSeq) :
         issued[i].stmt = SchemaSeq[k] =>
           /\ issued[i].conn = "target"
           /\ OkBefore(i, {"SELECT rolsuper FROM pg_roles"})
           /\ ~row.some => OkBefore(i, {"CREATE ROLE"})
           /\ (row.some /\ Confirmed(ans)) =>
                OkBefore(i, {"ALTER ROLE PASSWORD NOSUPERUSER"})
           /\ OkBefore(i, {"ALTER ROLE NOSUPERUSER"})
           /\ OkBefore(i, {"CREATE DATABASE OWNER", "ALTER DATABASE OWNER TO"})
           /\ OkBefore(i, {"GRANT ALL ON DATABASE"})
           /\ issued[i - 1].ok /\ issued[i - 1].conn = "target"
           /\ issued[i - 1].stmt = IF k = 1 THEN "CONNECT" ELSE SchemaSeq[k - 1]
C10_Witness ==
  /\ pc = "done" /\ exit_status = 0
  /\ \A k \in 1..Len(SchemaSeq) :
       \E i \in 1..Len(issued) :
         issued[i].stmt = SchemaSeq[k] /\ issued[i].conn = "target"

====
